---- MODULE Spec2Model ----
(***************************************************************************)
(* A model of justinattw/VMTranslator: the CodeWriter object (the code     *)
(* generator), the Command/Parser instruction model, the Main entry point, *)
(* and the Hack target machine that runs the emitted assembly.             *)
(*                                                                         *)
(* An output line is a record [t, s]:                                      *)
(*   t = "A"  models the line "@" + s        (A-instruction)               *)
(*   t = "C"  models the line s              (C-instruction, e.g. AM=M-1)  *)
(*   t = "L"  models the line "(" + s + ")"  (label declaration)           *)
(*   t = "//" models the line "//  " + s     (echo of the VM command)      *)
(* The kind of a line is fixed by the prefix the source writes; the text s *)
(* is built as the source builds it (f-strings are \o and Str).            *)
(*                                                                         *)
(* Python's None for a string field is the empty sequence <<>>, a set      *)
(* string x is <<x>>.  Python's None for an index is NoneIdx.              *)
(***************************************************************************)
EXTENDS Integers, Sequences, FiniteSets, TLC

VARIABLES
  cw,      \* the CodeWriter object: a record of its fields
  last,    \* history: the last operation called on cw and how it ended
  nops,    \* history: number of operations called so far
  job,     \* Main.translate_files: its position, inputs and parser state
  cpu      \* the Hack machine running an emitted program

vars == <<cw, last, nops, job, cpu>>

(***************************************************************************)
(* Bounds of the model.                                                    *)
(***************************************************************************)
MaxOps == 3        \* operations a client calls on one CodeWriter
MaxIndex == 2      \* largest segment index / argument count / local count

(***************************************************************************)
(* str(int) of Python, as the f-strings apply it.                          *)
(***************************************************************************)
NoneIdx == -1

Digit(d) ==
  CASE d = 0 -> "0" [] d = 1 -> "1" [] d = 2 -> "2" [] d = 3 -> "3"
    [] d = 4 -> "4" [] d = 5 -> "5" [] d = 6 -> "6" [] d = 7 -> "7"
    [] d = 8 -> "8" [] d = 9 -> "9"

RECURSIVE Decimal(_)
Decimal(n) == IF n < 10 THEN Digit(n) ELSE Decimal(n \div 10) \o Digit(n % 10)

Str(i) == IF i = NoneIdx THEN "None" ELSE Decimal(i)

None == <<>>
Some(x) == <<x>>

(***************************************************************************)
(* Output lines.                                                           *)
(***************************************************************************)
AInstr(s) == [t |-> "A", s |-> s]
CInstr(s) == [t |-> "C", s |-> s]
LabelDecl(s) == [t |-> "L", s |-> s]
Echo(s) == [t |-> "//", s |-> s]

(***************************************************************************)
(* Results of the translate_* methods: the list of commands, or the raise  *)
(* statement that ended the call.  Python raises a bare Exception at each  *)
(* site; the names are those of the error taxonomy, one per raise site.    *)
(***************************************************************************)
Ok(cmds) == [err |-> "none", cmds |-> cmds]
Raise(e) == [err |-> e, cmds |-> <<>>]

\* SEGMENTS_MAPPER and get_ram_code
SEGMENTS_MAPPER ==
  [s \in {"argument", "local", "this", "that"} |->
     CASE s = "argument" -> "ARG" [] s = "local" -> "LCL"
       [] s = "this" -> "THIS" [] s = "that" -> "THAT"]

get_ram_code(segment) == SEGMENTS_MAPPER[segment]

\* CodeWriter.translate_segment_vm_code
translate_segment_vm_code(w, segment, index) ==
  IF segment \in {"local", "argument", "this", "that"}
  THEN Ok(<<AInstr(get_ram_code(segment))>> \o
          (IF index = 0
           THEN <<CInstr("A=M")>>
           ELSE <<CInstr("D=M"), AInstr(Str(index)), CInstr("A=D+A")>>))
  ELSE IF segment = "static"
  THEN IF w.current_filename = None
       THEN Raise("UnboundContext")
       ELSE Ok(<<AInstr(w.current_filename[1] \o "." \o Str(index))>>)
  ELSE IF segment = "pointer"
  THEN IF index = 0 THEN Ok(<<AInstr("THIS")>>)
       ELSE IF index = 1 THEN Ok(<<AInstr("THAT")>>)
       ELSE Raise("InvalidOperand")
  ELSE IF segment = "temp"
  THEN Ok(<<AInstr("5"), CInstr("D=A"), AInstr(Str(index)), CInstr("A=D+A")>>)
  ELSE IF segment = "constant"
  THEN Ok(<<AInstr(Str(index)), CInstr("D=A")>>)
  ELSE Raise("UnknownSegment")

\* mutant: the value of the segment cell is never loaded into D
translate_push_without_load(w, segment, index) ==
  LET seg == IF segment # "skip"
             THEN translate_segment_vm_code(w, segment, index)
             ELSE Ok(<<>>)
  IN IF seg.err # "none" THEN seg
     ELSE Ok(seg.cmds \o
             <<AInstr("SP"), CInstr("AM=M+1"), CInstr("A=A-1"), CInstr("M=D")>>)

\* CodeWriter.translate_push_vm_code_to_asm
translate_push_vm_code_to_asm(w, segment, index) ==
  LET seg == IF segment # "skip"
             THEN translate_segment_vm_code(w, segment, index)
             ELSE Ok(<<>>)
      load == IF segment # "skip" /\ segment # "constant"
              THEN <<CInstr("D=M")>> ELSE <<>>
  IN IF seg.err # "none" THEN seg
     ELSE Ok(seg.cmds \o load \o
             <<AInstr("SP"), CInstr("AM=M+1"), CInstr("A=A-1"), CInstr("M=D")>>)

\* mutant: the popped value is not recovered from the sum (no D=D-A)
translate_pop_stores_sum(w, segment, index) ==
  IF segment = "constant" THEN Raise("InvalidSegment")
  ELSE LET seg == translate_segment_vm_code(w, segment, index)
       IN IF seg.err # "none" THEN seg
          ELSE Ok(seg.cmds \o
                  <<CInstr("D=A"), AInstr("SP"), CInstr("AM=M-1"), CInstr("D=D+M"),
                    CInstr("A=D-M"), CInstr("M=D")>>)

\* mutant: pop without the "constant" guard of line 467
translate_pop_unguarded(w, segment, index) ==
  LET seg == translate_segment_vm_code(w, segment, index)
  IN IF seg.err # "none" THEN seg
     ELSE Ok(seg.cmds \o
             <<CInstr("D=A"), AInstr("SP"), CInstr("AM=M-1"), CInstr("D=D+M"),
               CInstr("A=D-M"), CInstr("D=D-A"), CInstr("M=D")>>)

\* CodeWriter.translate_pop_vm_code_to_asm
translate_pop_vm_code_to_asm(w, segment, index) ==
  IF segment = "constant" THEN Raise("InvalidSegment")
  ELSE LET seg == translate_segment_vm_code(w, segment, index)
       IN IF seg.err # "none" THEN seg
          ELSE Ok(seg.cmds \o
                  <<CInstr("D=A"), AInstr("SP"), CInstr("AM=M-1"), CInstr("D=D+M"),
                    CInstr("A=D-M"), CInstr("D=D-A"), CInstr("M=D")>>)

\* mutant: the unary operators pop two operands like the binary ones
pop_operands_always_two(command) ==
  <<AInstr("SP"), CInstr("AM=M-1"), CInstr("D=M"), AInstr("SP"), CInstr("AM=M-1")>>

\* the head of translate_arithmetic_vm_code_to_assembly: SP-- once, and once
\* more with the first operand kept in D unless the command is neg or not
pop_operands(command) ==
  <<AInstr("SP"), CInstr("AM=M-1")>> \o
  (IF ~(command = "neg" \/ command = "not")
   THEN <<CInstr("D=M"), AInstr("SP"), CInstr("AM=M-1")>>
   ELSE <<>>)

\* CodeWriter.translate_arithmetic_vm_code_to_assembly; also returns the
\* value of arith_jump_counter after the call.
translate_arithmetic_vm_code_to_assembly(w, command) ==
  LET k == Str(w.arith_jump_counter)
      jump == IF command = "eq" THEN <<CInstr("D;JEQ")>>
              ELSE IF command = "gt" THEN <<CInstr("D;JGT")>>
              ELSE <<CInstr("D;JLT")>>
      compare == <<CInstr("D=M-D"), AInstr("TRUE_" \o k)>> \o jump \o
                 <<CInstr("D=0"), AInstr("END_" \o k), CInstr("0;JMP"),
                   LabelDecl("TRUE_" \o k), CInstr("D=-1"),
                   LabelDecl("END_" \o k),
                   AInstr("SP"), CInstr("A=M"), CInstr("M=D")>>
      arith == IF command = "add" THEN Ok(<<CInstr("M=M+D")>>)
               ELSE IF command = "sub" THEN Ok(<<CInstr("M=M-D")>>)
               ELSE IF command = "neg" THEN Ok(<<CInstr("M=-M")>>)
               ELSE IF command \in {"eq", "gt", "lt"} THEN Ok(compare)
               ELSE IF command = "and" THEN Ok(<<CInstr("M=D&M")>>)
               ELSE IF command = "or" THEN Ok(<<CInstr("M=D|M")>>)
               ELSE IF command = "not" THEN Ok(<<CInstr("M=!M")>>)
               ELSE Raise("InvalidOperator")
      counter == IF command \in {"eq", "gt", "lt"}
                 THEN w.arith_jump_counter + 1 ELSE w.arith_jump_counter
  IN IF arith.err # "none"
     THEN [err |-> arith.err, cmds |-> <<>>, counter |-> w.arith_jump_counter]
     ELSE [err |-> "none",
           cmds |-> pop_operands(command) \o arith.cmds
                    \o <<AInstr("SP"), CInstr("M=M+1")>>,
           counter |-> counter]

(***************************************************************************)
(* The methods of CodeWriter that write.  Each takes the object and gives  *)
(* [cw |-> the object after the call, err |-> "none" or the raise site].   *)
(***************************************************************************)
Done(w) == [cw |-> w, err |-> "none"]
Failed(w, e) == [cw |-> w, err |-> e]

\* CodeWriter.write
write(w, commands) == [w EXCEPT !.write_file = @ \o commands]

\* the "if self.log_vm_commands: self.write([f"//  ..."])" that opens each method
log(w, text) == IF w.log_vm_commands THEN write(w, <<Echo(text)>>) ELSE w

\* CodeWriter.set_filename; the path's basename is a sequence of pieces and
\* .replace(".vm", "") drops every ".vm" piece of it
RECURSIVE ReplaceVm(_)
ReplaceVm(pieces) ==
  IF pieces = <<>> THEN ""
  ELSE (IF Head(pieces) = ".vm" THEN "" ELSE Head(pieces)) \o ReplaceVm(Tail(pieces))

\* mutant: label counters kept per input unit
set_filename_per_unit_counters(w, basename) ==
  Done([w EXCEPT !.current_filename = Some(ReplaceVm(basename)),
                 !.current_function = None,
                 !.arith_jump_counter = 0,
                 !.return_counter = 0])

set_filename(w, basename) ==
  Done([w EXCEPT !.current_filename = Some(ReplaceVm(basename)),
                 !.current_function = None])

\* CodeWriter.close
close(w) == Done([w EXCEPT !.closed = TRUE])

\* CodeWriter.write_arithmetic
write_arithmetic(w, vm_command) ==
  LET w1 == log(w, vm_command)
      r == translate_arithmetic_vm_code_to_assembly(w1, vm_command)
  IN IF r.err # "none" THEN Failed(w1, r.err)
     ELSE Done(write([w1 EXCEPT !.arith_jump_counter = r.counter], r.cmds))

\* CodeWriter.write_push_pop
write_push_pop(w, command_type, segment, index) ==
  LET command == IF command_type = "C_PUSH" THEN "push" ELSE "pop"
      w1 == log(w, command \o " " \o segment \o " " \o Str(index))
      r == IF command_type = "C_PUSH"
           THEN translate_push_vm_code_to_asm(w1, segment, index)
           ELSE IF command_type = "C_POP"
           THEN translate_pop_vm_code_to_asm(w1, segment, index)
           ELSE Raise("BadCommandType")
  IN IF r.err # "none" THEN Failed(w1, r.err) ELSE Done(write(w1, r.cmds))

\* the label scoping shared by write_label, write_goto and write_if
in_function(w) == w.current_function # None

scoped(w, label) ==
  IF in_function(w) THEN w.current_function[1] \o "." \o label ELSE label

\* CodeWriter.write_label
write_label(w, label) ==
  Done(write(log(w, "label " \o label), <<LabelDecl(scoped(w, label))>>))

\* CodeWriter.write_goto
write_goto(w, label) ==
  Done(write(log(w, "goto " \o label),
             <<AInstr(scoped(w, label)), CInstr("0;JMP")>>))

\* CodeWriter.write_if
write_if(w, label) ==
  Done(write(log(w, "if-goto " \o label),
             <<AInstr("SP"), CInstr("AM=M-1"), CInstr("D=M"),
               AInstr(scoped(w, label)), CInstr("D;JNE")>>))

\* mutant: every turn of the loop initialises the cell LCL + 0
RECURSIVE local_slots_same_cell(_, _)
local_slots_same_cell(i, n) ==
  IF i >= n THEN <<>>
  ELSE <<AInstr(get_ram_code("local")), CInstr("D=M"), AInstr(Str(0)),
         CInstr("A=D+A"), CInstr("M=0"), AInstr("SP"), CInstr("M=M+1")>>
       \o local_slots_same_cell(i + 1, n)

\* the body of the "for i in range(num_local_vars)" loop of write_function
RECURSIVE local_slots(_, _)
local_slots(i, n) ==
  IF i >= n THEN <<>>
  ELSE <<AInstr(get_ram_code("local")), CInstr("D=M"), AInstr(Str(i)),
         CInstr("A=D+A"), CInstr("M=0"), AInstr("SP"), CInstr("M=M+1")>>
       \o local_slots(i + 1, n)

\* CodeWriter.write_function; range(None) raises TypeError
write_function(w, function_name, num_local_vars) ==
  LET w1 == [w EXCEPT !.current_function = Some(function_name)]
      w2 == log(w1, "function " \o function_name \o " " \o Str(num_local_vars))
  IN IF num_local_vars = NoneIdx THEN Failed(w2, "TypeError")
     ELSE Done(write(w2, <<LabelDecl(function_name)>> \o local_slots(0, num_local_vars)))

\* the "for mem in [local, argument, this, that]" loop of write_call
RECURSIVE push_saved(_, _)
push_saved(w, mems) ==
  IF mems = <<>> THEN <<>>
  ELSE <<AInstr(get_ram_code(Head(mems))), CInstr("D=M")>>
       \o translate_push_vm_code_to_asm(w, "skip", NoneIdx).cmds
       \o push_saved(w, Tail(mems))

\* mutant: ARG is set to SP - n - 4, one cell above the first argument
write_call_arg_off_by_one(w, function_name, num_vars) ==
  LET w1 == log(w, "call " \o function_name \o " " \o Str(num_vars))
      return_address_label == "RETURN_" \o Str(w1.return_counter)
      w2 == [w1 EXCEPT !.return_counter = @ + 1]
      asm_commands ==
        <<AInstr(return_address_label), CInstr("D=A")>>
        \o translate_push_vm_code_to_asm(w2, "skip", NoneIdx).cmds
        \o push_saved(w2, <<"local", "argument", "this", "that">>)
        \o <<AInstr("SP"), CInstr("D=M"), AInstr(Str(num_vars + 4)), CInstr("D=D-A"),
             AInstr(get_ram_code("argument")), CInstr("M=D"),
             AInstr("SP"), CInstr("D=M"),
             AInstr(get_ram_code("local")), CInstr("M=D"),
             AInstr(function_name), CInstr("0;JMP"),
             LabelDecl(return_address_label)>>
  IN IF num_vars = NoneIdx THEN Failed(w2, "TypeError")
     ELSE Done(write(w2, asm_commands))

\* CodeWriter.write_call; None + 5 raises TypeError after the counter moved
write_call(w, function_name, num_vars) ==
  LET w1 == log(w, "call " \o function_name \o " " \o Str(num_vars))
      return_address_label == "RETURN_" \o Str(w1.return_counter)
      w2 == [w1 EXCEPT !.return_counter = @ + 1]
      asm_commands ==
        <<AInstr(return_address_label), CInstr("D=A")>>
        \o translate_push_vm_code_to_asm(w2, "skip", NoneIdx).cmds
        \o push_saved(w2, <<"local", "argument", "this", "that">>)
        \o <<AInstr("SP"), CInstr("D=M"), AInstr(Str(num_vars + 5)), CInstr("D=D-A"),
             AInstr(get_ram_code("argument")), CInstr("M=D"),
             AInstr("SP"), CInstr("D=M"),
             AInstr(get_ram_code("local")), CInstr("M=D"),
             AInstr(function_name), CInstr("0;JMP"),
             LabelDecl(return_address_label)>>
  IN IF num_vars = NoneIdx THEN Failed(w2, "TypeError")
     ELSE Done(write(w2, asm_commands))

\* the "@frame; D=M; @k; A=D-A; D=M; @reg; M=D" group of write_return
restore(k, reg) ==
  <<AInstr("frame"), CInstr("D=M"), AInstr(Str(k)), CInstr("A=D-A"),
    CInstr("D=M"), AInstr(get_ram_code(reg)), CInstr("M=D")>>

\* mutant: a return ends the function context, as if at top level again
write_return_leaves_function(w) ==
  Done(write(log([w EXCEPT !.current_function = None], "return"),
    <<AInstr(get_ram_code("local")), CInstr("D=M"), AInstr("frame"), CInstr("M=D"),
      AInstr("5"), CInstr("A=D-A"), CInstr("D=M"), AInstr("return"), CInstr("M=D"),
      AInstr("SP"), CInstr("AM=M-1"), CInstr("D=M"),
      AInstr(get_ram_code("argument")), CInstr("A=M"), CInstr("M=D"),
      CInstr("D=A+1"), AInstr("SP"), CInstr("M=D")>>
    \o restore(1, "that") \o restore(2, "this")
    \o restore(3, "argument") \o restore(4, "local")
    \o <<AInstr("return"), CInstr("A=M"), CInstr("0;JMP")>>))

\* mutant: the return address is read from FRAME - 5 only after *ARG = pop()
write_return_reads_ret_late(w) ==
  Done(write(log(w, "return"),
    <<AInstr(get_ram_code("local")), CInstr("D=M"), AInstr("frame"), CInstr("M=D"),
      AInstr("SP"), CInstr("AM=M-1"), CInstr("D=M"),
      AInstr(get_ram_code("argument")), CInstr("A=M"), CInstr("M=D"),
      CInstr("D=A+1"), AInstr("SP"), CInstr("M=D"),
      AInstr("frame"), CInstr("D=M"),
      AInstr("5"), CInstr("A=D-A"), CInstr("D=M"), AInstr("return"), CInstr("M=D")>>
    \o restore(1, "that") \o restore(2, "this")
    \o restore(3, "argument") \o restore(4, "local")
    \o <<AInstr("return"), CInstr("A=M"), CInstr("0;JMP")>>))

\* CodeWriter.write_return
write_return(w) ==
  Done(write(log(w, "return"),
    <<AInstr(get_ram_code("local")), CInstr("D=M"), AInstr("frame"), CInstr("M=D"),
      AInstr("5"), CInstr("A=D-A"), CInstr("D=M"), AInstr("return"), CInstr("M=D"),
      AInstr("SP"), CInstr("AM=M-1"), CInstr("D=M"),
      AInstr(get_ram_code("argument")), CInstr("A=M"), CInstr("M=D"),
      CInstr("D=A+1"), AInstr("SP"), CInstr("M=D")>>
    \o restore(1, "that") \o restore(2, "this")
    \o restore(3, "argument") \o restore(4, "local")
    \o <<AInstr("return"), CInstr("A=M"), CInstr("0;JMP")>>))

\* mutant: the bootstrap written whatever the input path is
write_init_unconditional(w) ==
  LET w1 == log(w, "Boostrap code")
      w2 == write(w1, <<AInstr("256"), CInstr("D=A"), AInstr("SP"), CInstr("M=D")>>)
  IN write_call(w2, "Sys.init", 0)

\* CodeWriter.write_init
write_init(w) ==
  IF ~w.in_is_dir THEN Done(w)
  ELSE LET w1 == log(w, "Boostrap code")
           w2 == write(w1, <<AInstr("256"), CInstr("D=A"), AInstr("SP"), CInstr("M=D")>>)
       IN write_call(w2, "Sys.init", 0)

\* CodeWriter.__init__ once the output path is settled and the file is open
NewCodeWriter(is_dir, log_vm_commands) ==
  write_init([in_is_dir |-> is_dir,
              write_file |-> <<>>,
              closed |-> FALSE,
              current_filename |-> None,
              current_function |-> None,
              arith_jump_counter |-> 0,
              return_counter |-> 0,
              log_vm_commands |-> log_vm_commands]).cw

(***************************************************************************)
(* Spec: a client holding one CodeWriter calls its methods in any order.   *)
(***************************************************************************)
Basenames == {<<"Foo", ".vm">>, <<"Sys", ".vm">>, <<"Main", ".vm">>}
ArithmeticCommands == {"add", "sub", "neg", "eq", "gt", "lt", "and", "or", "not"}
Comparisons == {"eq", "gt", "lt"}
Segments == {"argument", "local", "this", "that", "static", "constant", "pointer", "temp"}
Indexes == 0 .. MaxIndex
CommandTypes == {"C_PUSH", "C_POP"}

\* what the client of Spec passes; the claims quantify over all of
\* ArithmeticCommands, Segments and Indexes in every state it reaches
ClientCommands == {"add", "eq", "lt", "mul"}
ClientPushPop == {<<"constant", 0>>, <<"pointer", MaxIndex>>, <<"static", 0>>}
ClientBasenames == {<<"Foo", ".vm">>, <<"Sys", ".vm">>}
LabelNames == {"LOOP"}
FunctionNames == {"f", "f.LOOP"}
CalleeNames == {"f"}
Counts == {1}

NoJob == [pc |-> "idle"]
NoCpu == [on |-> FALSE]

Record(op, command_type, arg1, arg2, r) ==
  /\ cw' = r.cw
  /\ last' = [op |-> op, command_type |-> command_type, arg1 |-> arg1,
              arg2 |-> arg2, err |-> r.err]
  /\ nops' = nops + 1

Call(op, command_type, arg1, arg2, r) ==
  /\ Record(op, command_type, arg1, arg2, r)
  /\ UNCHANGED <<job, cpu>>

CanCall == job.pc = "idle" /\ ~cpu.on /\ ~cw.closed /\ nops < MaxOps

Init ==
  /\ \E is_dir \in BOOLEAN, log_vm_commands \in BOOLEAN :
       cw = NewCodeWriter(is_dir, log_vm_commands)
  /\ last = [op |-> "__init__", command_type |-> "", arg1 |-> "", arg2 |-> NoneIdx,
             err |-> "none"]
  /\ nops = 0
  /\ job = NoJob
  /\ cpu = NoCpu

SetFilename ==
  /\ CanCall
  /\ \E b \in ClientBasenames :
       Call("set_filename", "", ReplaceVm(b), NoneIdx, set_filename(cw, b))

WriteArithmetic ==
  /\ CanCall
  /\ \E c \in ClientCommands :
       Call("write_arithmetic", "C_ARITHMETIC", c, NoneIdx, write_arithmetic(cw, c))

WritePushPop ==
  /\ CanCall
  /\ \E ct \in CommandTypes, a \in ClientPushPop :
       Call("write_push_pop", ct, a[1], a[2], write_push_pop(cw, ct, a[1], a[2]))

WriteLabel ==
  /\ CanCall
  /\ \E l \in LabelNames : Call("write_label", "C_LABEL", l, NoneIdx, write_label(cw, l))

WriteGoto ==
  /\ CanCall
  /\ \E l \in LabelNames : Call("write_goto", "C_GOTO", l, NoneIdx, write_goto(cw, l))

WriteIf ==
  /\ CanCall
  /\ \E l \in LabelNames : Call("write_if", "C_IF", l, NoneIdx, write_if(cw, l))

WriteFunction ==
  /\ CanCall
  /\ \E f \in FunctionNames, n \in Counts :
       Call("write_function", "C_FUNCTION", f, n, write_function(cw, f, n))

WriteCall ==
  /\ CanCall
  /\ \E f \in CalleeNames, n \in Counts :
       Call("write_call", "C_CALL", f, n, write_call(cw, f, n))

WriteReturn ==
  /\ CanCall
  /\ Call("write_return", "C_RETURN", "", NoneIdx, write_return(cw))

Close ==
  /\ job.pc = "idle" /\ ~cpu.on /\ ~cw.closed
  /\ Call("close", "", "", NoneIdx, close(cw))

Next ==
  \/ SetFilename
  \/ WriteArithmetic
  \/ WritePushPop
  \/ WriteLabel
  \/ WriteGoto
  \/ WriteIf
  \/ WriteFunction
  \/ WriteCall
  \/ WriteReturn
  \/ Close

Spec == Init /\ [][Next]_vars

(***************************************************************************)
(* What the assembler keeps of the output file: every line but the echoes. *)
(***************************************************************************)
IsCode(l) == l.t # "//"
Code(lines) == SelectSeq(lines, IsCode)

(***************************************************************************)
(* The Hack target machine (the platform the emitted assembly is written   *)
(* for; it is not part of the repository): 16-bit words, registers A and   *)
(* D, M = RAM[A], and the assembler's symbol resolution.                   *)
(***************************************************************************)
RamSize == 40      \* RAM cells of the machine the scenarios run on
EdgeSpan == 2      \* words within EdgeSpan of 0, 2^15 and 2^16 are drawn

Modulus == 2 ^ 16
Word(n) == (n + Modulus) % Modulus
Signed(w) == IF w >= 2 ^ 15 THEN w - Modulus ELSE w
Words ==
  (0 .. EdgeSpan - 1) \cup (2 ^ 15 - EdgeSpan .. 2 ^ 15 + EdgeSpan - 1)
    \cup (Modulus - EdgeSpan .. Modulus - 1)

RECURSIVE BitAnd(_, _)
BitAnd(x, y) ==
  IF x = 0 \/ y = 0 THEN 0
  ELSE (x % 2) * (y % 2) + 2 * BitAnd(x \div 2, y \div 2)

BitNot(x) == Modulus - 1 - x
BitOr(x, y) == BitNot(BitAnd(BitNot(x), BitNot(y)))

\* the ALU on the comp mnemonics the CodeWriter emits
ALU(comp, a, d, m) ==
  CASE comp = "0" -> 0
    [] comp = "-1" -> Modulus - 1
    [] comp = "D" -> d
    [] comp = "A" -> a
    [] comp = "M" -> m
    [] comp = "-M" -> Word(0 - m)
    [] comp = "!M" -> BitNot(m)
    [] comp = "A+1" -> Word(a + 1)
    [] comp = "A-1" -> Word(a - 1)
    [] comp = "M+1" -> Word(m + 1)
    [] comp = "M-1" -> Word(m - 1)
    [] comp = "D+A" -> Word(d + a)
    [] comp = "D-A" -> Word(d - a)
    [] comp \in {"D+M", "M+D"} -> Word(d + m)
    [] comp = "D-M" -> Word(d - m)
    [] comp = "M-D" -> Word(m - d)
    [] comp = "D&M" -> BitAnd(d, m)
    [] comp = "D|M" -> BitOr(d, m)

\* the assembler's parse of the C-instructions the CodeWriter emits:
\* dest=comp or comp;jump
Decode ==
  [c \in {"A=M", "D=M", "D=A", "M=D", "M=0", "D=0", "D=-1", "M=-M", "M=!M",
          "A=D+A", "A=D-A", "A=D-M", "A=A-1", "D=A+1", "D=D+M", "D=D-A", "D=M-D",
          "AM=M+1", "AM=M-1", "M=M+1", "M=M+D", "M=M-D", "M=D&M", "M=D|M",
          "0;JMP", "D;JEQ", "D;JGT", "D;JLT", "D;JNE"} |->
     CASE c = "A=M" -> [dest |-> {"A"}, comp |-> "M", jump |-> ""]
       [] c = "D=M" -> [dest |-> {"D"}, comp |-> "M", jump |-> ""]
       [] c = "D=A" -> [dest |-> {"D"}, comp |-> "A", jump |-> ""]
       [] c = "M=D" -> [dest |-> {"M"}, comp |-> "D", jump |-> ""]
       [] c = "M=0" -> [dest |-> {"M"}, comp |-> "0", jump |-> ""]
       [] c = "D=0" -> [dest |-> {"D"}, comp |-> "0", jump |-> ""]
       [] c = "D=-1" -> [dest |-> {"D"}, comp |-> "-1", jump |-> ""]
       [] c = "M=-M" -> [dest |-> {"M"}, comp |-> "-M", jump |-> ""]
       [] c = "M=!M" -> [dest |-> {"M"}, comp |-> "!M", jump |-> ""]
       [] c = "A=D+A" -> [dest |-> {"A"}, comp |-> "D+A", jump |-> ""]
       [] c = "A=D-A" -> [dest |-> {"A"}, comp |-> "D-A", jump |-> ""]
       [] c = "A=D-M" -> [dest |-> {"A"}, comp |-> "D-M", jump |-> ""]
       [] c = "A=A-1" -> [dest |-> {"A"}, comp |-> "A-1", jump |-> ""]
       [] c = "D=A+1" -> [dest |-> {"D"}, comp |-> "A+1", jump |-> ""]
       [] c = "D=D+M" -> [dest |-> {"D"}, comp |-> "D+M", jump |-> ""]
       [] c = "D=D-A" -> [dest |-> {"D"}, comp |-> "D-A", jump |-> ""]
       [] c = "D=M-D" -> [dest |-> {"D"}, comp |-> "M-D", jump |-> ""]
       [] c = "AM=M+1" -> [dest |-> {"A", "M"}, comp |-> "M+1", jump |-> ""]
       [] c = "AM=M-1" -> [dest |-> {"A", "M"}, comp |-> "M-1", jump |-> ""]
       [] c = "M=M+1" -> [dest |-> {"M"}, comp |-> "M+1", jump |-> ""]
       [] c = "M=M+D" -> [dest |-> {"M"}, comp |-> "M+D", jump |-> ""]
       [] c = "M=M-D" -> [dest |-> {"M"}, comp |-> "M-D", jump |-> ""]
       [] c = "M=D&M" -> [dest |-> {"M"}, comp |-> "D&M", jump |-> ""]
       [] c = "M=D|M" -> [dest |-> {"M"}, comp |-> "D|M", jump |-> ""]
       [] c = "0;JMP" -> [dest |-> {}, comp |-> "0", jump |-> "JMP"]
       [] c = "D;JEQ" -> [dest |-> {}, comp |-> "D", jump |-> "JEQ"]
       [] c = "D;JGT" -> [dest |-> {}, comp |-> "D", jump |-> "JGT"]
       [] c = "D;JLT" -> [dest |-> {}, comp |-> "D", jump |-> "JLT"]
       [] c = "D;JNE" -> [dest |-> {}, comp |-> "D", jump |-> "JNE"]]

Jumps(jump, v) ==
  CASE jump = "" -> FALSE
    [] jump = "JMP" -> TRUE
    [] jump = "JEQ" -> v = 0
    [] jump = "JNE" -> v # 0
    [] jump = "JGT" -> Signed(v) > 0
    [] jump = "JLT" -> Signed(v) < 0

\* the assembler's predefined symbols
Predefined ==
  [s \in {"SP", "LCL", "ARG", "THIS", "THAT"} |->
     CASE s = "SP" -> 0 [] s = "LCL" -> 1 [] s = "ARG" -> 2
       [] s = "THIS" -> 3 [] s = "THAT" -> 4]

\* numerals of A-instructions: "@5" loads 5
AsmNumerals == [n \in 0 .. RamSize + 256 |-> Decimal(n)]
IsAsmNumeral(s) == \E n \in DOMAIN AsmNumerals : AsmNumerals[n] = s
AsmNumeralValue(s) == CHOOSE n \in DOMAIN AsmNumerals : AsmNumerals[n] = s

IsInstr(l) == l.t \in {"A", "C"}

\* first pass: a label names the ROM address of the instruction after it
HasLabel(code, s) == \E i \in DOMAIN code : code[i] = LabelDecl(s)
LabelAddress(code, s) ==
  LET i == CHOOSE i \in DOMAIN code :
             /\ code[i] = LabelDecl(s)
             /\ \A j \in 1 .. i - 1 : code[j] # LabelDecl(s)
  IN Len(SelectSeq(SubSeq(code, 1, i - 1), IsInstr))

\* second pass: any other symbol is a variable, allocated from RAM[16] on in
\* the order of first use
IsVariable(code, s) ==
  ~IsAsmNumeral(s) /\ s \notin DOMAIN Predefined /\ ~HasLabel(code, s)
FirstUse(code, s) ==
  CHOOSE i \in DOMAIN code :
     /\ code[i] = AInstr(s)
     /\ \A j \in 1 .. i - 1 : code[j] # AInstr(s)
VariableAddress(code, s) ==
  16 + Cardinality({code[j].s : j \in
         {j \in 1 .. FirstUse(code, s) - 1 :
            code[j].t = "A" /\ IsVariable(code, code[j].s)}})

SymbolAddress(code, s) ==
  IF IsAsmNumeral(s) THEN AsmNumeralValue(s)
  ELSE IF s \in DOMAIN Predefined THEN Predefined[s]
  ELSE IF HasLabel(code, s) THEN LabelAddress(code, s)
  ELSE VariableAddress(code, s)

\* the ROM image of an output file
Assemble(lines) ==
  LET code == Code(lines)
      instrs == SelectSeq(code, IsInstr)
  IN [i \in DOMAIN instrs |->
        IF instrs[i].t = "A"
        THEN [t |-> "A", v |-> SymbolAddress(code, instrs[i].s)]
        ELSE [t |-> "C", v |-> Decode[instrs[i].s]]]

(***************************************************************************)
(* The instruction model: Command.__init__ on one cleaned source line,     *)
(* given as the list of tokens string.split(" ") yields.                   *)
(***************************************************************************)
MaxNumeral == 9    \* largest number written as a token of a source line

COMMAND_TYPE_MAP ==
  [c \in {"pop", "push", "add", "sub", "neg", "eq", "gt", "lt", "and", "or", "not",
          "label", "goto", "if-goto", "function", "return", "call"} |->
     CASE c = "pop" -> "C_POP" [] c = "push" -> "C_PUSH"
       [] c = "label" -> "C_LABEL" [] c = "goto" -> "C_GOTO"
       [] c = "if-goto" -> "C_IF" [] c = "function" -> "C_FUNCTION"
       [] c = "return" -> "C_RETURN" [] c = "call" -> "C_CALL"
       [] OTHER -> "C_ARITHMETIC"]

ARG1_BLACKLIST_COMMAND_TYPES == {"C_RETURN"}
ARG2_WHITELIST_COMMAND_TYPES == {"C_PUSH", "C_POP", "C_FUNCTION", "C_CALL"}

\* int(string) on a token: a decimal numeral, a negative numeral, or ValueError
IsNumeral(tok) == \E n \in 0 .. MaxNumeral : Decimal(n) = tok
NumeralValue(tok) == CHOOSE n \in 0 .. MaxNumeral : Decimal(n) = tok
IsNegative(tok) == \E n \in 1 .. MaxNumeral : "-" \o Decimal(n) = tok

NoCommand == [command_type |-> "", arg1 |-> None, arg2 |-> NoneIdx, err |-> "none"]
Rejected(e) == [NoCommand EXCEPT !.err = e]

\* the arg2 setter of Command
set_arg2(c, tok) ==
  IF c.command_type \notin ARG2_WHITELIST_COMMAND_TYPES THEN Rejected("MalformedInstruction")
  ELSE IF IsNegative(tok) THEN Rejected("MalformedInstruction")
  ELSE IF ~IsNumeral(tok) THEN Rejected("MalformedInstruction")
  ELSE [c EXCEPT !.arg2 = NumeralValue(tok)]

\* Command.__init__
Command(commands) ==
  IF commands[1] \notin DOMAIN COMMAND_TYPE_MAP THEN Rejected("MalformedInstruction")
  ELSE LET c0 == [NoCommand EXCEPT !.command_type = COMMAND_TYPE_MAP[commands[1]]]
       IN IF c0.command_type = "C_ARITHMETIC" THEN [c0 EXCEPT !.arg1 = Some(commands[1])]
          ELSE IF c0.command_type = "C_RETURN" THEN c0
          ELSE IF Len(commands) = 1 THEN Rejected("MalformedInstruction")
          ELSE LET c1 == [c0 EXCEPT !.arg1 = Some(commands[2])]
               IN IF Len(commands) = 2 THEN c1
                  ELSE LET c2 == set_arg2(c1, commands[3])
                       IN IF c2.err # "none" THEN c2
                          ELSE IF Len(commands) > 3 THEN Rejected("MalformedInstruction")
                          ELSE c2

(***************************************************************************)
(* SpecJob: Main.translate_files over one input path.  The units of the    *)
(* job and the lines of each unit are drawn as the loops reach them: at    *)
(* each turn of the while loop the unit either has one more command, drawn *)
(* from SourceLines, or has_more_commands() is false.                      *)
(***************************************************************************)
MaxUnits == 2      \* .vm files of a directory
MaxLines == 3      \* commands of all the .vm files of one job

InputPaths == {"Foo.vm", "dir", "dir/"}
SourceLines ==
  {<<"push", "constant", "2">>, <<"pop", "constant", "0">>, <<"add">>, <<"eq">>,
   <<"mul">>, <<"label", "LOOP">>, <<"if-goto", "LOOP">>,
   <<"function", "f", "1">>, <<"call", "f", "0">>, <<"return">>}

\* the dispatch of Main.translate_file on one parsed command
translate_command(w, c) ==
  IF c.command_type = "C_RETURN" THEN write_return(w)
  ELSE IF c.command_type = "C_ARITHMETIC" THEN write_arithmetic(w, c.arg1[1])
  ELSE IF c.command_type \in {"C_PUSH", "C_POP"}
  THEN write_push_pop(w, c.command_type, c.arg1[1], c.arg2)
  ELSE IF c.command_type = "C_LABEL" THEN write_label(w, c.arg1[1])
  ELSE IF c.command_type = "C_IF" THEN write_if(w, c.arg1[1])
  ELSE IF c.command_type = "C_GOTO" THEN write_goto(w, c.arg1[1])
  ELSE IF c.command_type = "C_FUNCTION" THEN write_function(w, c.arg1[1], c.arg2)
  ELSE write_call(w, c.arg1[1], c.arg2)

\* the method translate_command calls for a command type
MethodFor(command_type) ==
  CASE command_type = "C_RETURN" -> "write_return"
    [] command_type = "C_ARITHMETIC" -> "write_arithmetic"
    [] command_type \in {"C_PUSH", "C_POP"} -> "write_push_pop"
    [] command_type = "C_LABEL" -> "write_label"
    [] command_type = "C_IF" -> "write_if"
    [] command_type = "C_GOTO" -> "write_goto"
    [] command_type = "C_FUNCTION" -> "write_function"
    [] OTHER -> "write_call"

\* the CodeWriter field values before __init__ has run (no object yet)
NoCodeWriter ==
  [in_is_dir |-> FALSE, write_file |-> <<>>, closed |-> TRUE,
   current_filename |-> None, current_function |-> None,
   arith_jump_counter |-> 0, return_counter |-> 0, log_vm_commands |-> TRUE]

InitJob ==
  /\ cw = NoCodeWriter
  /\ last = [op |-> "", command_type |-> "", arg1 |-> "", arg2 |-> NoneIdx, err |-> "none"]
  /\ nops = 0
  /\ \E p \in InputPaths, n \in 1 .. MaxUnits :
       job = [pc |-> "start", input_path |-> p, opened |-> FALSE,
              units_left |-> IF p = "Foo.vm" THEN 1 ELSE n, units_read |-> {},
              lines_read |-> 0]
  /\ cpu = NoCpu

\* code_writer = CodeWriter(input_path): a directory path ending in "/" has an
\* empty basename and __init__ raises before it opens the file
Construct ==
  /\ job.pc = "start"
  /\ IF job.input_path = "dir/"
     THEN /\ job' = [job EXCEPT !.pc = "failed"]
          /\ UNCHANGED <<cw, last, nops>>
     ELSE /\ Record("__init__", "", "", NoneIdx,
                    Done(NewCodeWriter(job.input_path = "dir", TRUE)))
          /\ job' = [job EXCEPT !.pc = "files", !.opened = TRUE]
  /\ UNCHANGED cpu

\* the keys of files, as read_filepath_input fills it: the input file itself,
\* or the distinct .vm files of the input directory
UnitsOf(input_path) ==
  IF input_path = "Foo.vm" THEN {<<"Foo", ".vm">>} ELSE Basenames

\* for filepath in files: parser = Parser(file); code_writer.set_filename(filepath)
BeginUnit ==
  /\ job.pc = "files" /\ job.units_left > 0
  /\ \E b \in UnitsOf(job.input_path) \ job.units_read :
       /\ Record("set_filename", "", ReplaceVm(b), NoneIdx, set_filename(cw, b))
       /\ job' = [job EXCEPT !.pc = "unit", !.units_left = @ - 1,
                              !.units_read = @ \cup {b}]
  /\ UNCHANGED cpu

\* one turn of the while loop of translate_file: advance, then dispatch
TranslateCommand ==
  /\ job.pc = "unit" /\ job.lines_read < MaxLines
  /\ \E line \in SourceLines :
       LET c == Command(line)
           r == translate_command(cw, c)
       IN IF c.err # "none"
          THEN /\ job' = [job EXCEPT !.pc = "failed"]
               /\ Record("Command", "", line[1], NoneIdx, Failed(cw, c.err))
          ELSE /\ Record(MethodFor(c.command_type), c.command_type,
                         IF c.arg1 = None THEN "" ELSE c.arg1[1], c.arg2, r)
               /\ job' = IF r.err # "none"
                         THEN [job EXCEPT !.pc = "failed"]
                         ELSE [job EXCEPT !.lines_read = @ + 1]
  /\ UNCHANGED cpu

\* parser.has_more_commands() is false: translate_file returns
EndUnit ==
  /\ job.pc = "unit"
  /\ job' = [job EXCEPT !.pc = "files"]
  /\ UNCHANGED <<cw, last, nops, cpu>>

\* code_writer.close() after the loop over the files
CloseJob ==
  /\ job.pc = "files" /\ job.units_left = 0
  /\ Record("close", "", "", NoneIdx, close(cw))
  /\ job' = [job EXCEPT !.pc = "done"]
  /\ UNCHANGED cpu

NextJob ==
  \/ Construct
  \/ BeginUnit
  \/ TranslateCommand
  \/ EndUnit
  \/ CloseJob

SpecJob == InitJob /\ [][NextJob]_vars

(***************************************************************************)
(* SpecExec: the Hack machine runs the code the CodeWriter emits for one   *)
(* scenario, one instruction per step, from a RAM drawn for the scenario.  *)
(* A scenario is one arithmetic command on operands x (below) and y (top), *)
(* one push or pop, a call of a function with n arguments and k locals     *)
(* whose body pushes one constant and returns, or the entry code of a      *)
(* function with k locals, entered with LCL = SP.                          *)
(***************************************************************************)
SP0 == RamSize - 16
Bases == {8, SP0 - 2, SP0 + 8}
Junk(a) == 1000 + 7 * a

Instruction(command_type, arg1, arg2) ==
  [command_type |-> command_type, arg1 |-> Some(arg1), arg2 |-> arg2, err |-> "none"]

Scenario(kind, arg1, idx, k, x, y, base) ==
  [kind |-> kind, arg1 |-> arg1, idx |-> idx, k |-> k, x |-> x, y |-> y, base |-> base]

Scenarios ==
  {Scenario("arith", c, 0, 0, x, y, 0) : c \in ArithmeticCommands, x \in Words, y \in Words}
  \cup {Scenario("push", seg, i, 0, x, 0, b) :
          seg \in Segments, i \in Indexes, x \in Words, b \in Bases}
  \cup {Scenario("pop", seg, i, 0, 0, y, b) :
          seg \in Segments \ {"constant"}, i \in Indexes, y \in Words, b \in Bases}
  \cup {Scenario("call", "f", n, k, x, 0, 0) :
          n \in Indexes, k \in Indexes, x \in {0, MaxNumeral}}
  \cup {Scenario("function", "f", 0, k, 0, 0, 0) : k \in Indexes}

ValidScenario(sc) ==
  (sc.kind \in {"push", "pop"} /\ sc.arg1 = "pointer") => sc.idx \in {0, 1}

\* the VM commands of a scenario
Source(sc) ==
  CASE sc.kind = "arith" -> <<Instruction("C_ARITHMETIC", sc.arg1, NoneIdx)>>
    [] sc.kind = "push" -> <<Instruction("C_PUSH", sc.arg1, sc.idx)>>
    [] sc.kind = "pop" -> <<Instruction("C_POP", sc.arg1, sc.idx)>>
    [] sc.kind = "function" -> <<Instruction("C_FUNCTION", sc.arg1, sc.k)>>
    [] sc.kind = "call" ->
         <<Instruction("C_CALL", sc.arg1, sc.idx),
           Instruction("C_LABEL", "HALT", NoneIdx),
           Instruction("C_GOTO", "HALT", NoneIdx),
           Instruction("C_FUNCTION", sc.arg1, sc.k),
           Instruction("C_PUSH", "constant", sc.x),
           [Instruction("C_RETURN", "", NoneIdx) EXCEPT !.arg1 = None]>>

\* Main.translate_file over a unit whose commands all translate
RECURSIVE translate_all(_, _)
translate_all(w, commands) ==
  IF commands = <<>> THEN w
  ELSE translate_all(translate_command(w, Head(commands)).cw, Tail(commands))

UnitWriter == set_filename(NewCodeWriter(FALSE, TRUE), <<"Foo", ".vm">>).cw

\* the segment pointer of a base-relative segment
PointerOf(segment) == Predefined[get_ram_code(segment)]

\* the address a push or pop of the scenario refers to, by the VM's meaning
TargetAddress(sc, lines, ram) ==
  CASE sc.arg1 \in DOMAIN SEGMENTS_MAPPER -> ram[PointerOf(sc.arg1)] + sc.idx
    [] sc.arg1 = "temp" -> 5 + sc.idx
    [] sc.arg1 = "pointer" -> 3 + sc.idx
    [] sc.arg1 = "static" -> SymbolAddress(Code(lines), "Foo." \o Str(sc.idx))
    [] OTHER -> 0

InitialRam(sc, lines) ==
  LET r0 == [a \in 0 .. RamSize - 1 |-> IF a = 0 THEN SP0 ELSE Junk(a)]
      r1 == IF sc.kind \in {"push", "pop"} /\ sc.arg1 \in DOMAIN SEGMENTS_MAPPER
            THEN [r0 EXCEPT ![PointerOf(sc.arg1)] = sc.base] ELSE r0
  IN CASE sc.kind = "arith" -> [r1 EXCEPT ![SP0 - 2] = sc.x, ![SP0 - 1] = sc.y]
       [] sc.kind = "push" /\ sc.arg1 # "constant" ->
            [r1 EXCEPT ![TargetAddress(sc, lines, r1)] = sc.x]
       [] sc.kind = "pop" -> [r1 EXCEPT ![SP0 - 1] = sc.y]
       [] sc.kind = "function" -> [r1 EXCEPT ![PointerOf("local")] = SP0]
       [] OTHER -> r1

\* where the run stops: past the last instruction, or for a call at the
\* instruction after the call's jump, where the caller resumes
StopAddress(sc, rom, w) ==
  IF sc.kind = "call"
  THEN Len(Assemble(write_call(w, sc.arg1, sc.idx).cw.write_file))
  ELSE Len(rom)

InitExec ==
  /\ \E sc \in Scenarios, d \in {0, Modulus - 1} :
       /\ ValidScenario(sc)
       /\ cw = translate_all(UnitWriter, Source(sc))
       /\ LET rom == Assemble(cw.write_file)
              ram0 == InitialRam(sc, cw.write_file)
          IN cpu = [on |-> TRUE, scen |-> sc, rom |-> rom,
                    stop |-> StopAddress(sc, rom, UnitWriter),
                    ram0 |-> ram0, ram |-> ram0, A |-> 0, D |-> d, PC |-> 0,
                    fault |-> FALSE]
  /\ last = [op |-> "translate_file", command_type |-> "", arg1 |-> "", arg2 |-> NoneIdx,
             err |-> "none"]
  /\ nops = 0
  /\ job = NoJob

Running ==
  /\ cpu.on /\ ~cpu.fault
  /\ cpu.PC # cpu.stop /\ cpu.PC < Len(cpu.rom)

Fetch == cpu.rom[cpu.PC + 1]

\* @value
ExecA ==
  /\ Running /\ Fetch.t = "A"
  /\ cpu' = [cpu EXCEPT !.A = Fetch.v, !.PC = @ + 1]
  /\ UNCHANGED <<cw, last, nops, job>>

UsesM(c) ==
  "M" \in c.dest \/ c.comp \in {"M", "-M", "!M", "M+1", "M-1", "D+M", "M+D", "D-M",
                                 "M-D", "D&M", "D|M"}

\* dest=comp;jump: comp is computed from A, D and M = RAM[A], stored in every
\* register of dest (M at the A of before), and the jump goes to the A of before
ExecC ==
  /\ Running /\ Fetch.t = "C"
  /\ LET c == Fetch.v
         a == cpu.A
     IN IF UsesM(c) /\ a \notin DOMAIN cpu.ram
        THEN cpu' = [cpu EXCEPT !.fault = TRUE]
        ELSE LET m == IF a \in DOMAIN cpu.ram THEN cpu.ram[a] ELSE 0
                 v == ALU(c.comp, a, cpu.D, m)
             IN cpu' = [cpu EXCEPT
                          !.ram = IF "M" \in c.dest THEN [@ EXCEPT ![a] = v] ELSE @,
                          !.A = IF "A" \in c.dest THEN v ELSE @,
                          !.D = IF "D" \in c.dest THEN v ELSE @,
                          !.PC = IF Jumps(c.jump, v) THEN a ELSE @ + 1]
  /\ UNCHANGED <<cw, last, nops, job>>

NextExec ==
  \/ ExecA
  \/ ExecC

SpecExec == InitExec /\ [][NextExec]_vars

Stopped == cpu.on /\ cpu.PC = cpu.stop
SP == cpu.ram[0]

(***************************************************************************)
(* SpecLine: one turn of the while loop of Main.translate_file on any line *)
(* of a unit, as two steps: Parser.advance builds the Command from the     *)
(* tokens of the cleaned line, and the dispatch hands an accepted command  *)
(* to the CodeWriter.  The line is any list of 1 .. MaxTokens tokens.      *)
(***************************************************************************)
MaxTokens == 3     \* tokens of a source line

Tokens ==
  {"push", "pop", "add", "return", "label", "function", "call",
   "constant", "skip", "f", "1", "-1"}

RECURSIVE LinesOf(_)
LinesOf(n) ==
  IF n = 0 THEN {<<>>}
  ELSE {Append(l, t) : l \in LinesOf(n - 1), t \in Tokens}

TokenLines == UNION {LinesOf(n) : n \in 1 .. MaxTokens}

\* parser = Parser(file); code_writer.set_filename(filepath), and a line to read
InitLine ==
  /\ cw = UnitWriter
  /\ last = [op |-> "set_filename", command_type |-> "", arg1 |-> "Foo",
             arg2 |-> NoneIdx, err |-> "none"]
  /\ nops = 0
  /\ \E line \in TokenLines :
       job = [pc |-> "advance", line |-> line, command |-> NoCommand]
  /\ cpu = NoCpu

\* parser.advance(): self.current_command = Command(self.file[self.line])
Advance ==
  /\ job.pc = "advance"
  /\ LET c == Command(job.line)
     IN job' = [job EXCEPT !.pc = IF c.err # "none" THEN "rejected" ELSE "dispatch",
                           !.command = c]
  /\ UNCHANGED <<cw, last, nops, cpu>>

\* the rest of the turn: the CodeWriter method of the command's type is called
Dispatch ==
  /\ job.pc = "dispatch"
  /\ LET c == job.command
         r == translate_command(cw, c)
     IN /\ Record(MethodFor(c.command_type), c.command_type,
                  IF c.arg1 = None THEN "" ELSE c.arg1[1], c.arg2, r)
        /\ job' = [job EXCEPT !.pc = IF r.err # "none" THEN "failed" ELSE "translated"]
  /\ UNCHANGED cpu

NextLine ==
  \/ Advance
  \/ Dispatch

SpecLine == InitLine /\ [][NextLine]_vars

\* the run of a scenario neither faults nor ends anywhere but at its stop
RunsToStop == ~cpu.fault /\ (~Running => Stopped)

(***************************************************************************)
(* C1.  Call/return round trip.  For every argument count n (0 included)   *)
(* and every local count k, running the code of call f n, function f k,    *)
(* push constant v, return from SP = s stops at the instruction after the  *)
(* call's jump (its return label) with LCL, ARG, THIS, THAT as before the  *)
(* call, SP = s - n + 1 and v in cell s - n.                               *)
(***************************************************************************)
C1_CallReturnRoundTrip ==
  (cpu.on /\ cpu.scen.kind = "call") =>
    /\ RunsToStop
    /\ HasLabel(Code(cw.write_file), "RETURN_0")
    /\ cpu.stop = LabelAddress(Code(cw.write_file), "RETURN_0")
    /\ Stopped =>
         /\ \A r \in 1 .. 4 : cpu.ram[r] = cpu.ram0[r]
         /\ SP = SP0 - cpu.scen.idx + 1
         /\ cpu.ram[SP0 - cpu.scen.idx] = cpu.scen.x

\* a call with no argument of a function with locals has returned
C1_Witness ==
  /\ Stopped /\ cpu.scen.kind = "call"
  /\ cpu.scen.idx = 0 /\ cpu.scen.k > 0 /\ cpu.scen.x > 0

(***************************************************************************)
(* C2.  Comparisons.  For eq, gt, lt and all 16-bit x (below) and y (top), *)
(* the emitted code leaves SP one lower and the new top equal to -1 when   *)
(* x = y, x > y, x < y holds of the signed values, and 0 otherwise.        *)
(***************************************************************************)
Compares(c, x, y) ==
  CASE c = "eq" -> x = y [] c = "gt" -> x > y [] c = "lt" -> x < y

C2_ComparisonsSigned ==
  (Stopped /\ cpu.scen.kind = "arith" /\ cpu.scen.arg1 \in Comparisons) =>
    /\ SP = SP0 - 1
    /\ cpu.ram[SP0 - 2] =
         IF Compares(cpu.scen.arg1, Signed(cpu.scen.x), Signed(cpu.scen.y))
         THEN Modulus - 1 ELSE 0

(***************************************************************************)
(* C3.  add, sub, and, or leave x OP y in the cell of x and SP one lower;  *)
(* neg and not replace the top by its negation or complement and leave SP  *)
(* as it was; no other RAM cell changes.                                   *)
(***************************************************************************)
Binary(c, x, y) ==
  CASE c = "add" -> Word(x + y) [] c = "sub" -> Word(x - y)
    [] c = "and" -> BitAnd(x, y) [] c = "or" -> BitOr(x, y)

Unary(c, y) == CASE c = "neg" -> Word(0 - y) [] c = "not" -> BitNot(y)

C3_ArithmeticStackEffect ==
  (cpu.on /\ cpu.scen.kind = "arith" /\ cpu.scen.arg1 \notin Comparisons) =>
    /\ RunsToStop
    /\ Stopped =>
         cpu.ram =
           IF cpu.scen.arg1 \in {"neg", "not"}
           THEN [cpu.ram0 EXCEPT ![SP0 - 1] = Unary(cpu.scen.arg1, cpu.scen.y)]
           ELSE [cpu.ram0 EXCEPT ![0] = SP0 - 1,
                                 ![SP0 - 2] = Binary(cpu.scen.arg1, cpu.scen.x, cpu.scen.y)]

\* sub has wrapped below zero
C3_Witness ==
  /\ Stopped /\ cpu.scen.kind = "arith" /\ cpu.scen.arg1 = "sub"
  /\ cpu.scen.x < cpu.scen.y
  /\ cpu.ram[SP0 - 2] = Modulus + cpu.scen.x - cpu.scen.y

(***************************************************************************)
(* C5.  pop segment index, for every segment but constant and every valid  *)
(* index: SP is decremented, the former top v is stored at the address a   *)
(* the segment and index resolve to, and no other RAM cell changes, also   *)
(* when a + v wraps.                                                       *)
(***************************************************************************)
C5_PopStoresTop ==
  (cpu.on /\ cpu.scen.kind = "pop") =>
    /\ RunsToStop
    /\ Stopped =>
         LET a == TargetAddress(cpu.scen, cw.write_file, cpu.ram0)
         IN cpu.ram = [[cpu.ram0 EXCEPT ![0] = SP0 - 1] EXCEPT ![a] = cpu.scen.y]

\* a pop to base + index with index > 0 whose sum a + v wrapped
C5_Witness ==
  /\ Stopped /\ cpu.scen.kind = "pop"
  /\ cpu.scen.arg1 = "local" /\ cpu.scen.idx > 0
  /\ cpu.scen.base + cpu.scen.idx + cpu.scen.y >= Modulus
  /\ cpu.ram[cpu.scen.base + cpu.scen.idx] = cpu.scen.y

(***************************************************************************)
(* C6.  push segment index, for every segment and valid index: the cell at *)
(* the old SP receives the value held at the resolved address (the index   *)
(* itself for constant), SP is incremented, and no other RAM cell changes; *)
(* a static is addressed by the symbol <unit>.<index>.                     *)
(***************************************************************************)
C6_PushLoadsValue ==
  (cpu.on /\ cpu.scen.kind = "push") =>
    /\ RunsToStop
    /\ cpu.scen.arg1 = "static" =>
         \E i \in DOMAIN cw.write_file :
            cw.write_file[i] = AInstr(cw.current_filename[1] \o "." \o Str(cpu.scen.idx))
    /\ Stopped =>
         LET a == TargetAddress(cpu.scen, cw.write_file, cpu.ram0)
             v == IF cpu.scen.arg1 = "constant" THEN cpu.scen.idx ELSE cpu.ram0[a]
         IN cpu.ram = [[cpu.ram0 EXCEPT ![SP0] = v] EXCEPT ![0] = SP0 + 1]

\* a push from base + index, index > 0, of a value with the sign bit set has run
C6_Witness ==
  /\ Stopped /\ cpu.scen.kind = "push"
  /\ cpu.scen.arg1 = "that" /\ cpu.scen.idx > 0
  /\ cpu.ram[SP0] = cpu.scen.x /\ cpu.scen.x >= 2 ^ 15

\* the number of places where the sequence part occurs in the sequence whole
Occurrences(part, whole) ==
  Cardinality({i \in 1 .. Len(whole) :
                 /\ i + Len(part) - 1 <= Len(whole)
                 /\ whole[i] = part[1]
                 /\ SubSeq(whole, i, i + Len(part) - 1) = part})

(***************************************************************************)
(* C4.  Label uniqueness.  In every step of a client's calls, in any order *)
(* and over any number of set_filename calls, arith_jump_counter grows by  *)
(* exactly 1 when the step is a comparison (eq, gt, lt) and is unchanged   *)
(* otherwise, return_counter grows by exactly 1 when the step is a call    *)
(* and is unchanged otherwise (set_filename resets neither), and after the *)
(* step no two declarations of a generated label (TRUE_k, END_k, RETURN_k) *)
(* in the output are equal.                                                *)
(***************************************************************************)
GeneratedLabels ==
  {p \o Str(k) : p \in {"TRUE_", "END_", "RETURN_"}, k \in 0 .. MaxOps + 1}

IsLabelDecl(l) == l.t = "L"

GeneratedUnique(lines) ==
  LET decls == SelectSeq(lines, IsLabelDecl)
  IN \A i, j \in DOMAIN decls :
        (i < j /\ decls[i].s \in GeneratedLabels) => decls[i].s # decls[j].s

C4_CountersStep ==
  /\ cw'.arith_jump_counter = cw.arith_jump_counter +
       (IF last'.op = "write_arithmetic" /\ last'.arg1 \in Comparisons THEN 1 ELSE 0)
  /\ cw'.return_counter = cw.return_counter +
       (IF last'.op = "write_call" THEN 1 ELSE 0)
  /\ GeneratedUnique(cw'.write_file)

C4_LabelsUnique == [][C4_CountersStep]_vars

\* two comparisons and a call have been translated, a unit name being set
C4_Witness ==
  /\ cw.arith_jump_counter = 2
  /\ cw.return_counter >= 1
  /\ cw.current_filename # None
  /\ last.op = "write_arithmetic" /\ last.arg1 \in Comparisons

(***************************************************************************)
(* C7.  The output file is closed on every exit path of translate_files:   *)
(* whenever a job that opened the file has ended, by returning or by an    *)
(* exception leaving translate_files, the file is closed.                  *)
(***************************************************************************)
C7_ClosedOnEveryExit ==
  (job.pc \in {"done", "failed"} /\ job.opened) => cw.closed

(***************************************************************************)
(* C8.  Bootstrap.  At every point of a job over a directory the code of   *)
(* the output starts with SP = 256 followed by the call sequence of        *)
(* Sys.init with 0 arguments, and the SP = 256 sequence occurs in it       *)
(* exactly once; at every point of a job over a single file it occurs      *)
(* nowhere and nothing precedes the code of the first unit.                *)
(***************************************************************************)
SetSP256 == <<AInstr("256"), CInstr("D=A"), AInstr("SP"), CInstr("M=D")>>

CallSysInit ==
  Code(write_call([NoCodeWriter EXCEPT !.closed = FALSE], "Sys.init", 0).cw.write_file)

C8_BootstrapOnce ==
  job.opened =>
    LET code == Code(cw.write_file)
        boot == SetSP256 \o CallSysInit
    IN IF job.input_path = "dir"
       THEN /\ Len(code) >= Len(boot)
            /\ SubSeq(code, 1, Len(boot)) = boot
            /\ Occurrences(SetSP256, code) = 1
            /\ Occurrences(CallSysInit, code) = 1
       ELSE /\ Occurrences(SetSP256, code) = 0
            /\ (job.pc = "files" /\ job.units_left = 1) => cw.write_file = <<>>

\* a directory job has ended after translating a call of its own
C8_Witness ==
  /\ job.pc = "done" /\ job.input_path = "dir"
  /\ job.lines_read >= 1
  /\ cw.return_counter >= 2

(***************************************************************************)
(* C9.  The invalid segment operations fail and write no code.  In every   *)
(* state a client can reach with the output open: pop constant i raises    *)
(* InvalidSegment for every index i; push and pop of pointer i raise       *)
(* InvalidOperand for every index i outside {0, 1}; push and pop of static *)
(* i raise UnboundContext while no unit name is set; and none of them adds *)
(* a line of code to the output.                                           *)
(***************************************************************************)
FailsWith(r, e) ==
  LET old == Len(cw.write_file)
      new == Len(r.cw.write_file)
  IN /\ r.err = e
     /\ SubSeq(r.cw.write_file, 1, old) = cw.write_file
     /\ Code(SubSeq(r.cw.write_file, old + 1, new)) = <<>>

C9_InvalidSegmentOpsFail ==
  /\ ~cw.closed =>
       \A i \in Indexes \cup {NoneIdx} :
          FailsWith(write_push_pop(cw, "C_POP", "constant", i), "InvalidSegment")
  /\ ~cw.closed =>
       \A ct \in CommandTypes : \A i \in (Indexes \cup {NoneIdx}) \ {0, 1} :
          FailsWith(write_push_pop(cw, ct, "pointer", i), "InvalidOperand")
  /\ (~cw.closed /\ cw.current_filename = None) =>
       \A ct \in CommandTypes : \A i \in Indexes :
          FailsWith(write_push_pop(cw, ct, "static", i), "UnboundContext")
  /\ (last.op = "write_push_pop" /\ last.arg1 = "pointer" /\ last.arg2 \notin {0, 1})
       => last.err = "InvalidOperand"
  /\ (last.op = "write_push_pop" /\ last.arg1 = "constant" /\ last.command_type = "C_POP")
       => last.err = "InvalidSegment"

\* a client has called push or pop of static before any set_filename, and
\* the call has raised
C9_Witness ==
  /\ last.op = "write_push_pop" /\ last.arg1 = "static"
  /\ cw.current_filename = None
  /\ last.err = "UnboundContext"

(***************************************************************************)
(* C10.  A failing write_push_pop or write_arithmetic leaves the CodeWriter *)
(* (output, both counters, unit name, function context) exactly as it was. *)
(***************************************************************************)
C10_FailureWritesNothing ==
  [][(last'.op \in {"write_push_pop", "write_arithmetic"} /\ last'.err # "none")
       => cw' = cw]_vars

(***************************************************************************)
(* C11.  Call layout.  For every argument count n, the code of call f n    *)
(* run from SP = s enters f with the address of the return label and the   *)
(* caller's LCL, ARG, THIS, THAT in cells s .. s+4, in that order, with    *)
(* SP = s+5, ARG = s-n, LCL = s+5 and every other cell as before; the jump *)
(* to f is the unconditional 0;JMP on @f, and the return label is declared *)
(* on the line immediately after the jump.                                 *)
(***************************************************************************)
\* the RAM on entry to the callee, from the RAM before the call
CallFrame(ram, n, return_address) ==
  [ram EXCEPT ![SP0] = return_address,
              ![SP0 + 1] = ram[1], ![SP0 + 2] = ram[2],
              ![SP0 + 3] = ram[3], ![SP0 + 4] = ram[4],
              ![0] = SP0 + 5, ![1] = SP0 + 5, ![2] = SP0 - n]

\* the position of the first line equal to l in a list of lines that has one
LineOf(lines, l) ==
  CHOOSE i \in DOMAIN lines : lines[i] = l /\ \A j \in 1 .. i - 1 : lines[j] # l

C11_CallLayout ==
  (cpu.on /\ cpu.scen.kind = "call") =>
    LET code == Code(cw.write_file)
        r == LineOf(code, LabelDecl("RETURN_0"))
        entry == LabelAddress(code, cpu.scen.arg1)
        return_address == LabelAddress(code, "RETURN_0")
    IN /\ HasLabel(code, "RETURN_0") /\ HasLabel(code, cpu.scen.arg1)
       /\ r > 2
       /\ code[r - 2] = AInstr(cpu.scen.arg1)
       /\ code[r - 1] = CInstr("0;JMP")
       /\ cpu.PC = return_address - 1 => cpu.A = entry
       /\ cpu.PC = entry => cpu.ram = CallFrame(cpu.ram0, cpu.scen.idx, return_address)

\* a call with arguments has just entered the callee
C11_Witness ==
  /\ cpu.on /\ cpu.scen.kind = "call" /\ cpu.scen.idx > 0
  /\ cpu.PC = LabelAddress(Code(cw.write_file), cpu.scen.arg1)
  /\ cpu.ram[2] = SP0 - cpu.scen.idx
  /\ cpu.ram[SP0 + 1] = cpu.ram0[1]

(***************************************************************************)
(* C12.  Function entry.  write_function(f, k) sets the current function   *)
(* to f and emits the entry label (f) first; entered with LCL = SP, its    *)
(* code sets exactly the k cells LCL+0 .. LCL+k-1 to 0, advances SP by k   *)
(* and changes no other cell (LCL, ARG, THIS, THAT included); for k = 0    *)
(* the entry label is all the code there is.                               *)
(***************************************************************************)
C12_FunctionEntry ==
  (cpu.on /\ cpu.scen.kind = "function") =>
    LET code == Code(cw.write_file)
        k == cpu.scen.k
    IN /\ RunsToStop
       /\ cw.current_function = Some(cpu.scen.arg1)
       /\ Len(code) >= 1 /\ code[1] = LabelDecl(cpu.scen.arg1)
       /\ k = 0 => code = <<LabelDecl(cpu.scen.arg1)>>
       /\ Stopped =>
            cpu.ram = [a \in DOMAIN cpu.ram0 |->
                         IF a = 0 THEN SP0 + k
                         ELSE IF a \in SP0 .. SP0 + k - 1 THEN 0
                         ELSE cpu.ram0[a]]

\* the entry code of a function with two locals or more has run
C12_Witness ==
  /\ Stopped /\ cpu.scen.kind = "function" /\ cpu.scen.k >= 2
  /\ cpu.ram0[SP0 + 1] # 0 /\ cpu.ram[SP0 + 1] = 0
  /\ SP = SP0 + cpu.scen.k

(***************************************************************************)
(* C13.  Label scoping.  The function context is None at construction, is  *)
(* the name given to write_function after a write_function step, None      *)
(* after a set_filename step and unchanged by every other step (return and *)
(* call included); whatever the calls before, write_label, write_goto and  *)
(* write_if on a label L all emit the one target <context>.<L>, or the     *)
(* bare L when the context is None.                                        *)
(***************************************************************************)
\* the code a call with result r appends to the output of the writer w
Appended(w, r) ==
  Code(SubSeq(r.cw.write_file, Len(w.write_file) + 1, Len(r.cw.write_file)))

ScopedTarget(context, label) ==
  IF context = None THEN label ELSE context[1] \o "." \o label

BranchingAgrees(w, context, label) ==
  LET target == ScopedTarget(context, label)
  IN /\ Appended(w, write_label(w, label)) = <<LabelDecl(target)>>
     /\ Appended(w, write_goto(w, label)) = <<AInstr(target), CInstr("0;JMP")>>
     /\ Appended(w, write_if(w, label)) =
          <<AInstr("SP"), CInstr("AM=M-1"), CInstr("D=M"), AInstr(target), CInstr("D;JNE")>>

C13_ContextStep ==
  /\ cw'.current_function =
       IF last'.op = "write_function" THEN Some(last'.arg1)
       ELSE IF last'.op = "set_filename" THEN None
       ELSE cw.current_function
  /\ \A l \in LabelNames : BranchingAgrees(cw', cw'.current_function, l)
  /\ last'.op \in {"write_label", "write_goto", "write_if"} =>
       \E i \in DOMAIN cw'.write_file :
          /\ i > Len(cw.write_file)
          /\ cw'.write_file[i].t \in {"A", "L"}
          /\ cw'.write_file[i].s = ScopedTarget(cw.current_function, last'.arg1)

C13_LabelScoping ==
  /\ cw.current_function = None
  /\ \A l \in LabelNames : BranchingAgrees(cw, None, l)
  /\ [][C13_ContextStep]_vars

\* a goto translated after a return inside f targets f.LOOP
C13_Witness ==
  /\ last.op = "write_goto" /\ last.arg1 = "LOOP"
  /\ cw.current_function = Some("f")
  /\ \E i \in DOMAIN cw.write_file : cw.write_file[i] = AInstr("return")
  /\ cw.write_file[Len(cw.write_file) - 1] = AInstr("f.LOOP")

(***************************************************************************)
(* C15.  No label collision.  When the source, as the echo lines of the    *)
(* output record it, declares no function name twice and no label name     *)
(* twice without a function declaration in between, no two label           *)
(* declarations of the output are equal.                                   *)
(***************************************************************************)
IsFunctionEcho(l) ==
  \E f \in FunctionNames, n \in Counts :
     l = Echo("function " \o f \o " " \o Str(n))

DistinctFunctions(lines) ==
  \A f \in FunctionNames :
     Cardinality({i \in DOMAIN lines :
                    \E n \in Counts : lines[i] = Echo("function " \o f \o " " \o Str(n))}) <= 1

DistinctLabelsPerFunction(lines) ==
  \A l \in LabelNames : \A i, j \in DOMAIN lines :
     (i < j /\ lines[i] = Echo("label " \o l) /\ lines[j] = Echo("label " \o l))
       => \E k \in i + 1 .. j - 1 : IsFunctionEcho(lines[k])

C15_NoLabelCollision ==
  (/\ cw.log_vm_commands
   /\ DistinctFunctions(cw.write_file)
   /\ DistinctLabelsPerFunction(cw.write_file))
    => LET decls == SelectSeq(cw.write_file, IsLabelDecl)
       IN \A i, j \in DOMAIN decls : i < j => decls[i].s # decls[j].s

(***************************************************************************)
(* C14.  Operand presence.  Every command the instruction model accepts,   *)
(* and so every command handed to the CodeWriter, has arg2 a non-negative  *)
(* integer exactly when its type is push, pop, function or call and None   *)
(* otherwise, arg1 None exactly when its type is return, and comes from a  *)
(* line with the token count of its type: 1 for an arithmetic command or   *)
(* return, 2 for label, goto and if-goto, 3 for push, pop, function, call. *)
(***************************************************************************)
TokenCount(command_type) ==
  CASE command_type \in {"C_ARITHMETIC", "C_RETURN"} -> 1
    [] command_type \in ARG2_WHITELIST_COMMAND_TYPES -> 3
    [] OTHER -> 2

C14_OperandPresence ==
  job.pc \in {"dispatch", "translated", "failed"} =>
    LET c == job.command
    IN /\ (c.arg2 >= 0) <=> (c.command_type \in ARG2_WHITELIST_COMMAND_TYPES)
       /\ (c.arg2 < 0) => c.arg2 = NoneIdx
       /\ (c.arg1 = None) <=> (c.command_type \in ARG1_BLACKLIST_COMMAND_TYPES)
       /\ Len(job.line) = TokenCount(c.command_type)

(***************************************************************************)
(* C16.  Unknown segments.  A push or pop line whose segment is none of    *)
(* the eight segments ends in an error of the CodeWriter and leaves no     *)
(* target code in the output.                                              *)
(***************************************************************************)
C16_UnknownSegmentFails ==
  (/\ job.pc \in {"translated", "failed"}
   /\ job.command.command_type \in {"C_PUSH", "C_POP"}
   /\ job.command.arg1[1] \notin Segments)
    => /\ job.pc = "failed"
       /\ last.err # "none"
       /\ Code(cw.write_file) = <<>>

====
